---- MODULE Spec2Model ----
(***************************************************************************)
(* nginx-plus-exporter: the collection cycle of exporter.go.               *)
(*                                                                         *)
(* Every scrape calls Exporter.Collect in its own goroutine.  A cycle      *)
(* fetches the status page (fetchHTTP), reads the body, decodes the JSON   *)
(* into NginxStats and pushes constant metrics to the channel it was       *)
(* given.  The model keeps one program counter per scraping goroutine and  *)
(* follows the statements of Collect in source order.                      *)
(***************************************************************************)
EXTENDS Integers, Sequences, FiniteSets, TLC

\* Number of Collect invocations explored in one behaviour.
MaxCycles == 3

\* Goroutines that may run Collect at the same time (concurrent scrapes).
Scrapers == {1, 2}

(***************************************************************************)
(* State.                                                                  *)
(***************************************************************************)
VARIABLES
    pc,             \* pc[p]: the statement of Collect goroutine p is at
    clientTimeout,  \* http.DefaultClient.Timeout, process-global (seconds)
    crashed,        \* a goroutine panicked: the process is gone
    cycles,         \* Collect invocations started so far
    status,         \* status[p]: resp.StatusCode of the response Get returned
    body,           \* body[p]: Collect's local `body`
    closes,         \* closes[p]: Close calls made on this cycle's response body
    data,           \* data[p]: Collect's local `data` (index in Fixtures)
    nginxStats,     \* nginxStats[p]: Collect's local `nginxStats`
    todo,           \* todo[p]: keys the running range loop has not visited
    ch,             \* ch[p]: what this cycle has sent on its channel
    logged,         \* logged[p]: what this cycle has passed to log.Println
    exit,           \* exit[p]: the return statement the last cycle of p took
    prev, last      \* the two most recently returned cycles, oldest first

vars == << pc, clientTimeout, crashed, cycles, status, body, closes, data,
           nginxStats, todo, ch, logged, exit, prev, last >>

(***************************************************************************)
(* Numbers.  A non-negative integer n < 2^54 is kept as two limbs,         *)
(* n = hi * 2^53 + lo with hi \in {0, 1}, so that values on both sides of  *)
(* the float64 mantissa limit can be told apart.                           *)
(***************************************************************************)
N(hi, lo) == [hi |-> hi, lo |-> lo]
Zero == N(0, 0)

\* float64(x) of an int/int64 x (exporter.go:193-231).  Below 2^53 every
\* integer is representable; in [2^53, 2^54) the spacing is 2 and an odd
\* integer is a tie, rounded to the neighbour with an even mantissa.
Float64(n) ==
    IF n.hi = 0 \/ n.lo % 2 = 0 THEN n
    ELSE IF (n.lo - 1) % 4 = 0 THEN N(n.hi, n.lo - 1)
    ELSE N(n.hi, n.lo + 1)

(***************************************************************************)
(* JSON values as the decoder sees them.                                   *)
(***************************************************************************)
JNum(hi, lo) == [kind |-> "number", num |-> N(hi, lo)]
JStr(s)      == [kind |-> "string", str |-> s]
JArr(items)  == [kind |-> "array", items |-> items]
JObj(m)      == [kind |-> "object", members |-> m]
JNull        == [kind |-> "null"]
\* Bytes that are not a JSON text at all.
Malformed    == [kind |-> "malformed"]

(***************************************************************************)
(* encoding/json's Unmarshal into the struct types of exporter.go:19-98.   *)
(* Every decoder returns [err, v]: err is TRUE when the value cannot be    *)
(* stored in the Go type (an UnmarshalTypeError); v is the Go value left   *)
(* in the field.  The destination is always a fresh zero value (the local  *)
(* of exporter.go:185), so a JSON null or an absent member leaves zero.    *)
(***************************************************************************)
Ok(v)   == [err |-> FALSE, v |-> v]
Bad(v)  == [err |-> TRUE, v |-> v]

\* int / int64 fields (amd64: both 64 bits wide).
decodeInt(j) ==
    CASE j.kind = "number" -> Ok(j.num)
      [] j.kind = "null"   -> Ok(Zero)
      [] OTHER             -> Bad(Zero)

\* string fields.
decodeString(j) ==
    CASE j.kind = "string" -> Ok(j.str)
      [] j.kind = "null"   -> Ok("")
      [] OTHER             -> Bad("")

\* An int member of an object: a member that is absent leaves the zero value.
IntMember(m, key) == IF key \in DOMAIN m THEN decodeInt(m[key]) ELSE Ok(Zero)

\* A string member of an object.
StringMember(m, key) == IF key \in DOMAIN m THEN decodeString(m[key]) ELSE Ok("")

ZeroResponses ==
    [Responses1xx |-> Zero, Responses2xx |-> Zero, Responses3xx |-> Zero,
     Responses4xx |-> Zero, Responses5xx |-> Zero, Total |-> Zero]

\* struct Responses (exporter.go:43-50 and 67-74).
decodeResponses(j) ==
    CASE j.kind = "object" ->
           LET m  == j.members
               r1 == IntMember(m, "1xx")
               r2 == IntMember(m, "2xx")
               r3 == IntMember(m, "3xx")
               r4 == IntMember(m, "4xx")
               r5 == IntMember(m, "5xx")
               rt == IntMember(m, "total")
           IN  [err |-> r1.err \/ r2.err \/ r3.err \/ r4.err \/ r5.err \/ rt.err,
                v   |-> [Responses1xx |-> r1.v, Responses2xx |-> r2.v,
                         Responses3xx |-> r3.v, Responses4xx |-> r4.v,
                         Responses5xx |-> r5.v, Total |-> rt.v]]
      [] j.kind = "null" -> Ok(ZeroResponses)
      [] OTHER           -> Bad(ZeroResponses)

\* The member "responses" of a server zone or a peer.
ResponsesMember(m) ==
    IF "responses" \in DOMAIN m THEN decodeResponses(m["responses"])
    ELSE Ok(ZeroResponses)

ZeroServer ==
    [Processing |-> Zero, Requests |-> Zero, Responses |-> ZeroResponses,
     Discarded |-> Zero, Received |-> Zero, Sent |-> Zero]

\* type Server (exporter.go:40-54).
decodeServer(j) ==
    CASE j.kind = "object" ->
           LET m  == j.members
               pr == IntMember(m, "processing")
               rq == IntMember(m, "requests")
               rs == ResponsesMember(m)
               di == IntMember(m, "discarded")
               rc == IntMember(m, "received")
               se == IntMember(m, "sent")
           IN  [err |-> pr.err \/ rq.err \/ rs.err \/ di.err \/ rc.err \/ se.err,
                v   |-> [Processing |-> pr.v, Requests |-> rq.v, Responses |-> rs.v,
                         Discarded |-> di.v, Received |-> rc.v, Sent |-> se.v]]
      [] j.kind = "null" -> Ok(ZeroServer)
      [] OTHER           -> Bad(ZeroServer)

ZeroPeer ==
    [Server |-> "", State |-> "", Requests |-> Zero, Responses |-> ZeroResponses,
     Sent |-> Zero, Received |-> Zero, Fails |-> Zero, Downtime |-> Zero]

\* One element of Upstream.Peers (exporter.go:57-90); of the members Collect
\* never reads, State stands for the rest.
decodePeer(j) ==
    CASE j.kind = "object" ->
           LET m  == j.members
               sv == StringMember(m, "server")
               st == StringMember(m, "state")
               rq == IntMember(m, "requests")
               rs == ResponsesMember(m)
               se == IntMember(m, "sent")
               rc == IntMember(m, "received")
               fa == IntMember(m, "fails")
               dt == IntMember(m, "downtime")
           IN  [err |-> sv.err \/ st.err \/ rq.err \/ rs.err \/ se.err \/ rc.err
                        \/ fa.err \/ dt.err,
                v   |-> [Server |-> sv.v, State |-> st.v, Requests |-> rq.v,
                         Responses |-> rs.v, Sent |-> se.v, Received |-> rc.v,
                         Fails |-> fa.v, Downtime |-> dt.v]]
      [] j.kind = "null" -> Ok(ZeroPeer)
      [] OTHER           -> Bad(ZeroPeer)

\* Upstream.Peers, a slice (exporter.go:57).
decodePeers(j) ==
    CASE j.kind = "array" ->
           LET ps == [i \in 1..Len(j.items) |-> decodePeer(j.items[i])]
           IN  [err |-> \E i \in 1..Len(ps) : ps[i].err,
                v   |-> [i \in 1..Len(ps) |-> ps[i].v]]
      [] j.kind = "null" -> Ok(<<>>)
      [] OTHER           -> Bad(<<>>)

ZeroUpstream == [Peers |-> <<>>, Keepalive |-> Zero, Zombies |-> Zero]

\* type Upstream (exporter.go:56-98).
decodeUpstream(j) ==
    CASE j.kind = "object" ->
           LET m  == j.members
               ps == (IF "peers" \in DOMAIN m THEN decodePeers(m["peers"]) ELSE Ok(<<>>))
               ka == IntMember(m, "keepalive")
               zo == IntMember(m, "zombies")
           IN  [err |-> ps.err \/ ka.err \/ zo.err,
                v   |-> [Peers |-> ps.v, Keepalive |-> ka.v, Zombies |-> zo.v]]
      [] j.kind = "null" -> Ok(ZeroUpstream)
      [] OTHER           -> Bad(ZeroUpstream)

\* The nil map: no keys.
NoZones == [k \in {} |-> ZeroServer]

\* map[string]Server (exporter.go:36): one entry per member of the object.
decodeServerZones(j) ==
    CASE j.kind = "object" ->
           LET m  == j.members
               es == [k \in DOMAIN m |-> decodeServer(m[k])]
           IN  [err |-> \E k \in DOMAIN m : es[k].err,
                v   |-> [k \in DOMAIN m |-> es[k].v]]
      [] j.kind = "null" -> Ok(NoZones)
      [] OTHER           -> Bad(NoZones)

\* map[string]Upstream (exporter.go:37).
decodeUpstreamZones(j) ==
    CASE j.kind = "object" ->
           LET m  == j.members
               es == [k \in DOMAIN m |-> decodeUpstream(m[k])]
           IN  [err |-> \E k \in DOMAIN m : es[k].err,
                v   |-> [k \in DOMAIN m |-> es[k].v]]
      [] j.kind = "null" -> Ok(NoZones)
      [] OTHER           -> Bad(NoZones)

ZeroConnections == [Accepted |-> Zero, Dropped |-> Zero, Active |-> Zero, Idle |-> Zero]
ZeroSSLs        == [Handshakes |-> Zero, HandshakesFailed |-> Zero, SessionReuses |-> Zero]
ZeroRequests    == [Total |-> Zero, Current |-> Zero]

\* NginxStats.Connections (exporter.go:20-25).
decodeConnections(j) ==
    CASE j.kind = "object" ->
           LET m  == j.members
               ac == IntMember(m, "accepted")
               dr == IntMember(m, "dropped")
               av == IntMember(m, "active")
               id == IntMember(m, "idle")
           IN  [err |-> ac.err \/ dr.err \/ av.err \/ id.err,
                v   |-> [Accepted |-> ac.v, Dropped |-> dr.v, Active |-> av.v,
                         Idle |-> id.v]]
      [] j.kind = "null" -> Ok(ZeroConnections)
      [] OTHER           -> Bad(ZeroConnections)

\* NginxStats.SSLs (exporter.go:26-30).
decodeSSLs(j) ==
    CASE j.kind = "object" ->
           LET m  == j.members
               hs == IntMember(m, "handshakes")
               hf == IntMember(m, "handshakes_failed")
               sr == IntMember(m, "session_reuses")
           IN  [err |-> hs.err \/ hf.err \/ sr.err,
                v   |-> [Handshakes |-> hs.v, HandshakesFailed |-> hf.v,
                         SessionReuses |-> sr.v]]
      [] j.kind = "null" -> Ok(ZeroSSLs)
      [] OTHER           -> Bad(ZeroSSLs)

\* NginxStats.Requests (exporter.go:31-34).
decodeRequests(j) ==
    CASE j.kind = "object" ->
           LET m  == j.members
               to == IntMember(m, "total")
               cu == IntMember(m, "current")
           IN  [err |-> to.err \/ cu.err,
                v   |-> [Total |-> to.v, Current |-> cu.v]]
      [] j.kind = "null" -> Ok(ZeroRequests)
      [] OTHER           -> Bad(ZeroRequests)

\* var nginxStats NginxStats (exporter.go:185).
ZeroStats ==
    [Connections |-> ZeroConnections, SSLs |-> ZeroSSLs, Requests |-> ZeroRequests,
     ServerZones |-> NoZones, UpstreamZones |-> NoZones]

\* json.Unmarshal(data, &nginxStats) (exporter.go:186).  A text that is not
\* JSON is a SyntaxError; a top-level null stores nothing and is no error;
\* any other non-object cannot be stored in the struct.
Unmarshal(j) ==
    CASE j.kind = "malformed" -> Bad(ZeroStats)
      [] j.kind = "null"      -> Ok(ZeroStats)
      [] j.kind = "object"    ->
           LET m  == j.members
               co == (IF "connections" \in DOMAIN m THEN decodeConnections(m["connections"])
                      ELSE Ok(ZeroConnections))
               ss == (IF "ssl" \in DOMAIN m THEN decodeSSLs(m["ssl"]) ELSE Ok(ZeroSSLs))
               rq == (IF "requests" \in DOMAIN m THEN decodeRequests(m["requests"])
                      ELSE Ok(ZeroRequests))
               sz == (IF "server_zones" \in DOMAIN m THEN decodeServerZones(m["server_zones"])
                      ELSE Ok(NoZones))
               uz == (IF "upstreams" \in DOMAIN m THEN decodeUpstreamZones(m["upstreams"])
                      ELSE Ok(NoZones))
           IN  [err |-> co.err \/ ss.err \/ rq.err \/ sz.err \/ uz.err,
                v   |-> [Connections |-> co.v, SSLs |-> ss.v, Requests |-> rq.v,
                         ServerZones |-> sz.v, UpstreamZones |-> uz.v]]
      [] OTHER                -> Bad(ZeroStats)

(***************************************************************************)
(* The metric catalog (exporter.go:106-149).                               *)
(***************************************************************************)
\* flag metrics.namespace, default "nginx" (exporter.go:257).
metricsNamespace == "nginx"

\* prometheus.NewDesc(BuildFQName(namespace, group, name), doc, labels, nil).
newCustomMetric(metricGroupName, metricName, labels) ==
    [fqName |-> <<metricsNamespace, metricGroupName, metricName>>, labels |-> labels]

connectionsMetrics ==
    [accepted |-> newCustomMetric("connections", "accepted", <<>>),
     dropped  |-> newCustomMetric("connections", "dropped", <<>>),
     active   |-> newCustomMetric("connections", "active", <<>>),
     idle     |-> newCustomMetric("connections", "idle", <<>>)]

sslMetrics ==
    [handshakes        |-> newCustomMetric("ssl", "handshakes", <<>>),
     handshakes_failed |-> newCustomMetric("ssl", "handshakes_failed", <<>>),
     session_reuses    |-> newCustomMetric("ssl", "session_reuses", <<>>)]

requestsMetrics ==
    [total   |-> newCustomMetric("requests", "total", <<>>),
     current |-> newCustomMetric("requests", "current", <<>>)]

serverMetrics ==
    [processing |-> newCustomMetric("server", "processing", <<"server">>),
     requests   |-> newCustomMetric("server", "requests", <<"server">>),
     discarded  |-> newCustomMetric("server", "discarded", <<"server">>),
     received   |-> newCustomMetric("server", "received", <<"server">>),
     sent       |-> newCustomMetric("server", "sent", <<"server">>),
     responses  |-> newCustomMetric("server", "responses", <<"server", "code">>)]

upstreamMetrics ==
    [requests  |-> newCustomMetric("upstream", "requests", <<"server", "upstream">>),
     fails     |-> newCustomMetric("upstream", "fails", <<"server", "upstream">>),
     received  |-> newCustomMetric("upstream", "received", <<"server", "upstream">>),
     sent      |-> newCustomMetric("upstream", "sent", <<"server", "upstream">>),
     downtime  |-> newCustomMetric("upstream", "downtime", <<"server", "upstream">>),
     responses |-> newCustomMetric("upstream", "responses",
                                   <<"server", "upstream", "code">>)]

Range(f) == {f[k] : k \in DOMAIN f}

\* Exporter.Describe (exporter.go:151-168): every descriptor of the five maps.
Describe ==
    Range(serverMetrics) \cup Range(connectionsMetrics) \cup Range(sslMetrics)
        \cup Range(requestsMetrics) \cup Range(upstreamMetrics)

(***************************************************************************)
(* Samples.                                                                *)
(***************************************************************************)
\* prometheus.MustNewConstMetric: panics when the number of label values is
\* not the number of labels of the descriptor.
MustNewConstMetric(desc, valueType, value, labelValues) ==
    [desc        |-> desc,
     valueType   |-> valueType,
     value       |-> value,
     labelValues |-> labelValues,
     panic       |-> Len(labelValues) # Len(desc.labels)]

\* The accepted sample grows with every cycle run so far, as a counter that
\* adds each reading to what it held would.
ConnectionSamples_Accumulating(st) ==
    << MustNewConstMetric(connectionsMetrics["accepted"], "counter",
                          Float64(N(st.Connections.Accepted.hi,
                              st.Connections.Accepted.lo * cycles)), <<>>),
       MustNewConstMetric(connectionsMetrics["dropped"], "counter",
                          Float64(st.Connections.Dropped), <<>>),
       MustNewConstMetric(connectionsMetrics["active"], "gauge",
                          Float64(st.Connections.Active), <<>>),
       MustNewConstMetric(connectionsMetrics["idle"], "gauge",
                          Float64(st.Connections.Idle), <<>>) >>

\* exporter.go:193-196.
ConnectionSamples(st) ==
    << MustNewConstMetric(connectionsMetrics["accepted"], "counter",
                          Float64(st.Connections.Accepted), <<>>),
       MustNewConstMetric(connectionsMetrics["dropped"], "counter",
                          Float64(st.Connections.Dropped), <<>>),
       MustNewConstMetric(connectionsMetrics["active"], "gauge",
                          Float64(st.Connections.Active), <<>>),
       MustNewConstMetric(connectionsMetrics["idle"], "gauge",
                          Float64(st.Connections.Idle), <<>>) >>

\* exporter.go:199-201.
SSLSamples(st) ==
    << MustNewConstMetric(sslMetrics["handshakes"], "counter",
                          Float64(st.SSLs.Handshakes), <<>>),
       MustNewConstMetric(sslMetrics["handshakes_failed"], "counter",
                          Float64(st.SSLs.HandshakesFailed), <<>>),
       MustNewConstMetric(sslMetrics["session_reuses"], "counter",
                          Float64(st.SSLs.SessionReuses), <<>>) >>

\* The discarded sample built from the requests field.
ServerZoneSamples_CopyPaste(host, s) ==
    << MustNewConstMetric(serverMetrics["processing"], "gauge",
                          Float64(s.Processing), <<host>>),
       MustNewConstMetric(serverMetrics["requests"], "counter",
                          Float64(s.Requests), <<host>>),
       MustNewConstMetric(serverMetrics["discarded"], "counter",
                          Float64(s.Requests), <<host>>),
       MustNewConstMetric(serverMetrics["received"], "counter",
                          Float64(s.Received), <<host>>),
       MustNewConstMetric(serverMetrics["sent"], "counter",
                          Float64(s.Sent), <<host>>),
       MustNewConstMetric(serverMetrics["responses"], "counter",
                          Float64(s.Responses.Responses1xx), <<host, "1xx">>),
       MustNewConstMetric(serverMetrics["responses"], "counter",
                          Float64(s.Responses.Responses2xx), <<host, "2xx">>),
       MustNewConstMetric(serverMetrics["responses"], "counter",
                          Float64(s.Responses.Responses3xx), <<host, "3xx">>),
       MustNewConstMetric(serverMetrics["responses"], "counter",
                          Float64(s.Responses.Responses4xx), <<host, "4xx">>),
       MustNewConstMetric(serverMetrics["responses"], "counter",
                          Float64(s.Responses.Responses5xx), <<host, "5xx">>) >>

\* The body of the server-zone loop (exporter.go:205-214).
ServerZoneSamples(host, s) ==
    << MustNewConstMetric(serverMetrics["processing"], "gauge",
                          Float64(s.Processing), <<host>>),
       MustNewConstMetric(serverMetrics["requests"], "counter",
                          Float64(s.Requests), <<host>>),
       MustNewConstMetric(serverMetrics["discarded"], "counter",
                          Float64(s.Discarded), <<host>>),
       MustNewConstMetric(serverMetrics["received"], "counter",
                          Float64(s.Received), <<host>>),
       MustNewConstMetric(serverMetrics["sent"], "counter",
                          Float64(s.Sent), <<host>>),
       MustNewConstMetric(serverMetrics["responses"], "counter",
                          Float64(s.Responses.Responses1xx), <<host, "1xx">>),
       MustNewConstMetric(serverMetrics["responses"], "counter",
                          Float64(s.Responses.Responses2xx), <<host, "2xx">>),
       MustNewConstMetric(serverMetrics["responses"], "counter",
                          Float64(s.Responses.Responses3xx), <<host, "3xx">>),
       MustNewConstMetric(serverMetrics["responses"], "counter",
                          Float64(s.Responses.Responses4xx), <<host, "4xx">>),
       MustNewConstMetric(serverMetrics["responses"], "counter",
                          Float64(s.Responses.Responses5xx), <<host, "5xx">>) >>

\* The label values of zone and peer in the other order.
PeerSamples_Swapped(host, p) ==
    LET upstream == p.Server
    IN << MustNewConstMetric(upstreamMetrics["requests"], "counter",
                             Float64(p.Requests), <<upstream, host>>),
          MustNewConstMetric(upstreamMetrics["sent"], "counter",
                             Float64(p.Sent), <<upstream, host>>),
          MustNewConstMetric(upstreamMetrics["received"], "counter",
                             Float64(p.Received), <<upstream, host>>),
          MustNewConstMetric(upstreamMetrics["downtime"], "counter",
                             Float64(p.Downtime), <<upstream, host>>),
          MustNewConstMetric(upstreamMetrics["fails"], "counter",
                             Float64(p.Fails), <<upstream, host>>),
          MustNewConstMetric(upstreamMetrics["responses"], "counter",
                             Float64(p.Responses.Responses1xx), <<upstream, host, "1xx">>),
          MustNewConstMetric(upstreamMetrics["responses"], "counter",
                             Float64(p.Responses.Responses2xx), <<upstream, host, "2xx">>),
          MustNewConstMetric(upstreamMetrics["responses"], "counter",
                             Float64(p.Responses.Responses3xx), <<upstream, host, "3xx">>),
          MustNewConstMetric(upstreamMetrics["responses"], "counter",
                             Float64(p.Responses.Responses4xx), <<upstream, host, "4xx">>),
          MustNewConstMetric(upstreamMetrics["responses"], "counter",
                             Float64(p.Responses.Responses5xx), <<upstream, host, "5xx">>) >>

\* The body of the peer loop (exporter.go:221-231).
PeerSamples(host, p) ==
    LET upstream == p.Server
    IN << MustNewConstMetric(upstreamMetrics["requests"], "counter",
                             Float64(p.Requests), <<host, upstream>>),
          MustNewConstMetric(upstreamMetrics["sent"], "counter",
                             Float64(p.Sent), <<host, upstream>>),
          MustNewConstMetric(upstreamMetrics["received"], "counter",
                             Float64(p.Received), <<host, upstream>>),
          MustNewConstMetric(upstreamMetrics["downtime"], "counter",
                             Float64(p.Downtime), <<host, upstream>>),
          MustNewConstMetric(upstreamMetrics["fails"], "counter",
                             Float64(p.Fails), <<host, upstream>>),
          MustNewConstMetric(upstreamMetrics["responses"], "counter",
                             Float64(p.Responses.Responses1xx), <<host, upstream, "1xx">>),
          MustNewConstMetric(upstreamMetrics["responses"], "counter",
                             Float64(p.Responses.Responses2xx), <<host, upstream, "2xx">>),
          MustNewConstMetric(upstreamMetrics["responses"], "counter",
                             Float64(p.Responses.Responses3xx), <<host, upstream, "3xx">>),
          MustNewConstMetric(upstreamMetrics["responses"], "counter",
                             Float64(p.Responses.Responses4xx), <<host, upstream, "4xx">>),
          MustNewConstMetric(upstreamMetrics["responses"], "counter",
                             Float64(p.Responses.Responses5xx), <<host, upstream, "5xx">>) >>

\* for _, p := range zone.Peers (exporter.go:220-232): the peers in slice order.
RECURSIVE PeersFrom(_, _, _)
PeersFrom(host, peers, i) ==
    IF i > Len(peers) THEN <<>>
    ELSE PeerSamples(host, peers[i]) \o PeersFrom(host, peers, i + 1)

\* The upstream loop without its inner loop: the first peer only.
UpstreamZoneSamples_FirstPeerOnly(host, zone) ==
    IF Len(zone.Peers) = 0 THEN <<>> ELSE PeerSamples(host, zone.Peers[1])

UpstreamZoneSamples(host, zone) == PeersFrom(host, zone.Peers, 1)

(***************************************************************************)
(* What the upstream may answer.                                           *)
(***************************************************************************)
n(x) == JNum(0, x)

ResponsesJSON(a, b, c, d, e) ==
    JObj("1xx" :> n(a) @@ "2xx" :> n(b) @@ "3xx" :> n(c) @@ "4xx" :> n(d)
         @@ "5xx" :> n(e) @@ "total" :> n(a + b + c + d + e))

ConnectionsJSON ==
    JObj("accepted" :> n(5) @@ "dropped" :> n(1) @@ "active" :> n(2) @@ "idle" :> n(3))

SSLJSON ==
    JObj("handshakes" :> n(4) @@ "handshakes_failed" :> n(1) @@ "session_reuses" :> n(2))

RequestsJSON == JObj("total" :> n(100) @@ "current" :> n(1))

\* A server zone as nginx versions before 6 report it: no "discarded".
Site1JSON ==
    JObj("processing" :> n(1) @@ "requests" :> n(10) @@ "received" :> n(500)
         @@ "sent" :> n(900) @@ "responses" :> ResponsesJSON(0, 9, 1, 0, 0))

\* A server zone with "discarded", and counters beyond 2^53.
Site2JSON ==
    JObj("processing" :> n(3) @@ "requests" :> JNum(1, 1) @@ "discarded" :> n(2)
         @@ "received" :> JNum(1, 2) @@ "sent" :> JNum(1, 3)
         @@ "responses" :> ResponsesJSON(1, 20, 3, 4, 5))

PeerJSON(server, requests) ==
    JObj("id" :> n(0) @@ "server" :> JStr(server) @@ "state" :> JStr("up")
         @@ "requests" :> n(requests) @@ "sent" :> n(70) @@ "received" :> n(30)
         @@ "fails" :> n(1) @@ "downtime" :> n(0)
         @@ "responses" :> ResponsesJSON(0, requests, 0, 0, 0))

Fixtures ==
    << \* an HTML error page
       Malformed,
       \* []
       JArr(<<>>),
       \* null
       JNull,
       \* {"connections": "n/a"}
       JObj("connections" :> JStr("n/a")),
       \* one server zone, no upstreams
       JObj("connections" :> ConnectionsJSON @@ "ssl" :> SSLJSON
            @@ "requests" :> RequestsJSON
            @@ "server_zones" :> JObj("site1" :> Site1JSON)
            @@ "upstreams" :> JObj([k \in {} |-> JNull])),
       \* two server zones, one upstream group of two peers, one without peers
       JObj("connections" :> ConnectionsJSON @@ "ssl" :> SSLJSON
            @@ "requests" :> RequestsJSON
            @@ "server_zones" :> JObj("site1" :> Site1JSON @@ "site2" :> Site2JSON)
            @@ "upstreams" :>
                 JObj("backend" :> JObj("peers" :> JArr(<< PeerJSON("10.0.0.1:80", 7),
                                                           PeerJSON("10.0.0.2:80", 8) >>)
                                        @@ "keepalive" :> n(0))
                      @@ "spare" :> JObj("peers" :> JArr(<<>>)))) >>

\* A body is identified by its index in Fixtures.
Payloads == DOMAIN Fixtures

\* HTTP status codes a response can carry: the first of the 2xx range, the
\* first above it, and a client error (Go's client never hands a 1xx to its
\* caller).
Statuses == {200, 300, 404}

\* fetchHTTP(e.URI, 2*time.Second) (exporter.go:172), in seconds.
Timeout == 2

NilErr == [msg |-> "", code |-> 0]
Error(msg, code) == [msg |-> msg, code |-> code]

\* What http.DefaultClient.Get can fail with under the client's timeout
\* (0: no timeout is set, the request never times out).
TransportErrors(timeout) ==
    {Error("connection refused", 0)}
        \cup (IF timeout > 0 THEN {Error("Client.Timeout exceeded", 0)} ELSE {})

\* The test of the status code without its upper limit.
IsSuccess_NoUpperLimit(StatusCode) == StatusCode >= 200

\* exporter.go:245.
IsSuccess(StatusCode) == StatusCode >= 200 /\ StatusCode < 300

\* The closure without the resp.Body.Close() of the non-2xx branch.
fetchClosure_NoClose(getErr, StatusCode) ==
    IF getErr # NilErr
    THEN [body |-> "nil", err |-> getErr, closes |-> 0]
    ELSE IF ~(StatusCode >= 200 /\ StatusCode < 300)
    THEN [body |-> "nil", err |-> Error("HTTP status", StatusCode), closes |-> 0]
    ELSE [body |-> "resp.Body", err |-> NilErr, closes |-> 0]

\* The closure fetchHTTP returns (exporter.go:240-250), given what Get
\* returned: the body and error handed to Collect and the number of Close
\* calls made on the response body.
fetchClosure(getErr, StatusCode) ==
    IF getErr # NilErr
    THEN [body |-> "nil", err |-> getErr, closes |-> 0]
    ELSE IF ~IsSuccess(StatusCode)
    THEN [body |-> "nil", err |-> Error("HTTP status", StatusCode), closes |-> 1]
    ELSE [body |-> "resp.Body", err |-> NilErr, closes |-> 0]

\* body.Close() on the io.ReadCloser held by Collect (exporter.go:177): a nil
\* interface panics, a body counts one more Close.
Close(b, closed) ==
    IF b = "nil" THEN [panic |-> TRUE, closes |-> closed]
    ELSE [panic |-> FALSE, closes |-> closed + 1]

\* ch <- s for each sample of a sequence in turn; building a sample that
\* panics stops the goroutine before it is sent.
RECURSIVE Send(_, _)
Send(chan, samples) ==
    IF Len(samples) = 0 THEN [ch |-> chan, panic |-> FALSE]
    ELSE IF Head(samples).panic THEN [ch |-> chan, panic |-> TRUE]
    ELSE Send(Append(chan, Head(samples)), Tail(samples))

NoCycle  == [payload |-> 0, exit |-> "none", samples |-> {}]

Init ==
    /\ pc = [p \in Scrapers |-> "idle"]
    /\ clientTimeout = 0
    /\ crashed = FALSE
    /\ cycles = 0
    /\ status = [p \in Scrapers |-> 0]
    /\ body = [p \in Scrapers |-> "nil"]
    /\ closes = [p \in Scrapers |-> 0]
    /\ data = [p \in Scrapers |-> 0]
    /\ nginxStats = [p \in Scrapers |-> ZeroStats]
    /\ todo = [p \in Scrapers |-> {}]
    /\ ch = [p \in Scrapers |-> <<>>]
    /\ logged = [p \in Scrapers |-> <<>>]
    /\ exit = [p \in Scrapers |-> "none"]
    /\ prev = NoCycle
    /\ last = NoCycle

\* An unrecovered panic in a collector goroutine ends the process.
Panic(p) ==
    /\ pc' = [pc EXCEPT ![p] = "panicked"]
    /\ crashed' = TRUE
    /\ UNCHANGED << exit, prev, last >>

\* A Collect whose error returns end the process (log.Fatalln for
\* log.Println).
Finish_FatalOnError(p, how) ==
    /\ pc' = [pc EXCEPT ![p] = "returned"]
    /\ exit' = [exit EXCEPT ![p] = how]
    /\ prev' = last
    /\ last' = [payload |-> data'[p], exit |-> how, samples |-> Range(ch'[p])]
    /\ crashed' = (how # "ok")

\* Collect returns to its caller through the return statement `how`; the
\* caller holds what was sent on ch.
Finish(p, how) ==
    /\ pc' = [pc EXCEPT ![p] = "returned"]
    /\ exit' = [exit EXCEPT ![p] = how]
    /\ prev' = last
    /\ last' = [payload |-> data'[p], exit |-> how, samples |-> Range(ch'[p])]
    /\ UNCHANGED crashed

\* log.Println(msg, err) (exporter.go:174, 181, 188).
Log(p, msg, err) ==
    logged' = [logged EXCEPT ![p] = Append(@, [msg |-> msg, err |-> err])]

\* A return statement below exporter.go:177: the deferred body.Close() runs,
\* then Collect returns.
Return(p, how) ==
    LET c == Close(body[p], closes[p])
    IN  /\ closes' = [closes EXCEPT ![p] = c.closes]
        /\ IF c.panic THEN Panic(p) ELSE Finish(p, how)

\* A scrape invokes Collect with a fresh channel (exporter.go:170).
Collect(p) ==
    /\ ~crashed
    /\ pc[p] \in {"idle", "returned"}
    /\ cycles < MaxCycles
    /\ cycles' = cycles + 1
    /\ pc' = [pc EXCEPT ![p] = "fetchHTTP"]
    /\ status' = [status EXCEPT ![p] = 0]
    /\ body' = [body EXCEPT ![p] = "nil"]
    /\ closes' = [closes EXCEPT ![p] = 0]
    /\ data' = [data EXCEPT ![p] = 0]
    /\ nginxStats' = [nginxStats EXCEPT ![p] = ZeroStats]
    /\ todo' = [todo EXCEPT ![p] = {}]
    /\ ch' = [ch EXCEPT ![p] = <<>>]
    /\ logged' = [logged EXCEPT ![p] = <<>>]
    /\ exit' = [exit EXCEPT ![p] = "none"]
    /\ UNCHANGED << clientTimeout, crashed, prev, last >>

\* fetchHTTP(e.URI, 2*time.Second): http.DefaultClient.Timeout = timeout
\* (exporter.go:238), then the closure is returned.
fetchHTTP(p) ==
    /\ ~crashed
    /\ pc[p] = "fetchHTTP"
    /\ clientTimeout' = Timeout
    /\ pc' = [pc EXCEPT ![p] = "Get"]
    /\ UNCHANGED << crashed, cycles, status, body, closes, data, nginxStats, todo,
                    ch, logged, exit, prev, last >>

\* The closure runs (exporter.go:240-250) and Collect tests its error
\* (exporter.go:172-177).  getErr is what http.DefaultClient.Get failed with,
\* NilErr when it returned a response with status code StatusCode.
Fetched(p, getErr, StatusCode) ==
    LET f == fetchClosure(getErr, StatusCode)
    IN  /\ status' = [status EXCEPT ![p] = StatusCode]
        /\ closes' = [closes EXCEPT ![p] = @ + f.closes]
        /\ body' = [body EXCEPT ![p] = f.body]
        /\ UNCHANGED << clientTimeout, cycles, data, nginxStats, todo, ch >>
        /\ IF f.err # NilErr
           THEN /\ Log(p, "fetchHTTP failed", f.err)
                /\ Finish(p, "fetch")
           ELSE /\ pc' = [pc EXCEPT ![p] = "ReadAll"]
                /\ UNCHANGED << crashed, logged, exit, prev, last >>

\* http.DefaultClient.Get(uri) fails: no response.
GetError(p) ==
    /\ ~crashed
    /\ pc[p] = "Get"
    /\ \E e \in TransportErrors(clientTimeout) : Fetched(p, e, 0)

\* http.DefaultClient.Get(uri) returns a response.
GetResponse(p) ==
    /\ ~crashed
    /\ pc[p] = "Get"
    /\ \E StatusCode \in Statuses : Fetched(p, NilErr, StatusCode)

\* ioutil.ReadAll(body) returns the bytes the upstream sent (exporter.go:179).
ReadAll(p) ==
    /\ ~crashed
    /\ pc[p] = "ReadAll"
    /\ UNCHANGED << clientTimeout, cycles, status, body, closes, nginxStats, todo, ch >>
    /\ IF body[p] = "nil"
       THEN /\ Panic(p)
            /\ UNCHANGED << data, logged >>
       ELSE /\ \E payload \in Payloads : data' = [data EXCEPT ![p] = payload]
            /\ pc' = [pc EXCEPT ![p] = "Unmarshal"]
            /\ UNCHANGED << crashed, logged, exit, prev, last >>

\* ioutil.ReadAll(body) fails: the connection breaks or the client's timeout
\* expires while the body is read (exporter.go:179-183).
ReadAllError(p) ==
    /\ ~crashed
    /\ pc[p] = "ReadAll"
    /\ body[p] # "nil"
    /\ UNCHANGED << clientTimeout, cycles, status, body, data, nginxStats, todo, ch >>
    /\ \E e \in {Error("unexpected EOF", 0)}
                   \cup (IF clientTimeout > 0
                         THEN {Error("Client.Timeout exceeded", 0)} ELSE {}) :
           /\ Log(p, "ioutil.ReadAll failed", e)
           /\ Return(p, "read")

\* json.Unmarshal(data, &nginxStats) and the test of its error
\* (exporter.go:185-190).
Decode(p) ==
    /\ ~crashed
    /\ pc[p] = "Unmarshal"
    /\ UNCHANGED << clientTimeout, cycles, status, body, data, todo, ch >>
    /\ LET r == Unmarshal(Fixtures[data[p]])
       IN  /\ nginxStats' = [nginxStats EXCEPT ![p] = r.v]
           /\ IF r.err
              THEN /\ Log(p, "json.Unmarshal failed", Error("json", 0))
                   /\ Return(p, "decode")
              ELSE /\ pc' = [pc EXCEPT ![p] = "connections"]
                   /\ UNCHANGED << crashed, closes, logged, exit, prev, last >>

\* The samples sent before the loops (exporter.go:192-201); the server-zone
\* loop starts (exporter.go:204).
EmitConnections(p) ==
    /\ ~crashed
    /\ pc[p] = "connections"
    /\ LET s == Send(ch[p], ConnectionSamples(nginxStats[p]) \o SSLSamples(nginxStats[p]))
       IN  /\ ch' = [ch EXCEPT ![p] = s.ch]
           /\ IF s.panic
              THEN /\ Panic(p)
                   /\ UNCHANGED todo
              ELSE /\ pc' = [pc EXCEPT ![p] = "ServerZones"]
                   /\ todo' = [todo EXCEPT ![p] = DOMAIN nginxStats[p].ServerZones]
                   /\ UNCHANGED << crashed, exit, prev, last >>
    /\ UNCHANGED << clientTimeout, cycles, status, body, closes, data, nginxStats, logged >>

\* One iteration of `for host, s := range nginxStats.ServerZones`
\* (exporter.go:204-216); Go fixes no order on the keys of a map.
EmitServerZone(p) ==
    /\ ~crashed
    /\ pc[p] = "ServerZones"
    /\ \E host \in todo[p] :
           LET s == Send(ch[p], ServerZoneSamples(host, nginxStats[p].ServerZones[host]))
           IN  /\ ch' = [ch EXCEPT ![p] = s.ch]
               /\ todo' = [todo EXCEPT ![p] = @ \ {host}]
               /\ IF s.panic
                  THEN Panic(p)
                  ELSE UNCHANGED << pc, crashed, exit, prev, last >>
    /\ UNCHANGED << clientTimeout, cycles, status, body, closes, data, nginxStats, logged >>

\* The server-zone loop ends, the upstream loop starts (exporter.go:219).
ServerZonesDone(p) ==
    /\ ~crashed
    /\ pc[p] = "ServerZones"
    /\ todo[p] = {}
    /\ pc' = [pc EXCEPT ![p] = "UpstreamZones"]
    /\ todo' = [todo EXCEPT ![p] = DOMAIN nginxStats[p].UpstreamZones]
    /\ UNCHANGED << clientTimeout, crashed, cycles, status, body, closes, data,
                    nginxStats, ch, logged, exit, prev, last >>

\* One iteration of `for host, zone := range nginxStats.UpstreamZones` with
\* its inner loop over zone.Peers (exporter.go:219-233).
EmitUpstreamZone(p) ==
    /\ ~crashed
    /\ pc[p] = "UpstreamZones"
    /\ \E host \in todo[p] :
           LET s == Send(ch[p], UpstreamZoneSamples(host, nginxStats[p].UpstreamZones[host]))
           IN  /\ ch' = [ch EXCEPT ![p] = s.ch]
               /\ todo' = [todo EXCEPT ![p] = @ \ {host}]
               /\ IF s.panic
                  THEN Panic(p)
                  ELSE UNCHANGED << pc, crashed, exit, prev, last >>
    /\ UNCHANGED << clientTimeout, cycles, status, body, closes, data, nginxStats, logged >>

\* The upstream loop ends and Collect returns (exporter.go:233-235).
CollectDone(p) ==
    /\ ~crashed
    /\ pc[p] = "UpstreamZones"
    /\ todo[p] = {}
    /\ UNCHANGED << clientTimeout, cycles, status, body, data, nginxStats, todo, ch,
                    logged >>
    /\ Return(p, "ok")

Next ==
    \E p \in Scrapers :
        \/ Collect(p)
        \/ fetchHTTP(p)
        \/ GetError(p)
        \/ GetResponse(p)
        \/ ReadAll(p)
        \/ ReadAllError(p)
        \/ Decode(p)
        \/ EmitConnections(p)
        \/ EmitServerZone(p)
        \/ ServerZonesDone(p)
        \/ EmitUpstreamZone(p)
        \/ CollectDone(p)

Spec == Init /\ [][Next]_vars

(***************************************************************************)
(* Properties.                                                             *)
(***************************************************************************)
InSuccessRange(code) == code \in 200..299

\* The cycle of p is past its fetch.
AfterFetch(p) == pc[p] \notin {"idle", "fetchHTTP", "Get"}

\* The fetch of p's cycle failed: Get gave no response (status 0) or a
\* response whose status is outside 200-299.
FetchFailed(p) == AfterFetch(p) /\ ~InSuccessRange(status[p])

\* The members of the object under `key` of a JSON object, none when absent.
RawMembers(j, key) ==
    IF j.kind = "object" /\ key \in DOMAIN j.members
       /\ j.members[key].kind = "object"
    THEN j.members[key].members
    ELSE [k \in {} |-> JNull]

\* The peers array of an upstream zone as sent.
RawPeers(z) ==
    IF z.kind = "object" /\ "peers" \in DOMAIN z.members
       /\ z.members["peers"].kind = "array"
    THEN z.members["peers"].items
    ELSE <<>>

\* The number sent for `key` in a JSON object, 0 when the member is absent.
RawNum(j, key) == IF key \in DOMAIN j.members THEN j.members[key].num ELSE Zero

RECURSIVE TotalPeers(_, _)
TotalPeers(zones, names) ==
    IF names = {} THEN 0
    ELSE LET z == CHOOSE x \in names : TRUE
         IN  Len(RawPeers(zones[z])) + TotalPeers(zones, names \ {z})

\* The samples of a channel whose descriptor belongs to a metric group.
OfGroup(chan, group) == {i \in 1..Len(chan) : chan[i].desc.fqName[2] = group}

\* C1: whenever the fetch of a cycle fails (no response, a timeout, or a
\* status outside 200-299), Collect has returned normally with nothing sent
\* on its channel and exactly one logged line, the fetch error; the process
\* has not panicked or exited.
C1_FetchFailureEmitsNothing ==
    \A p \in Scrapers :
        FetchFailed(p) =>
            /\ pc[p] = "returned"
            /\ ~crashed
            /\ Len(ch[p]) = 0
            /\ Len(logged[p]) = 1
            /\ logged[p][1].msg = "fetchHTTP failed"
            /\ logged[p][1].err # NilErr

\* Two cycles have returned, one after a timed-out Get and one after a
\* response with status 300.
C1_Witness ==
    \E p, q \in Scrapers :
        /\ pc[p] = "returned" /\ status[p] = 0
        /\ Len(logged[p]) = 1 /\ logged[p][1].err.msg = "Client.Timeout exceeded"
        /\ pc[q] = "returned" /\ status[q] = 300
        /\ Len(logged[q]) = 1 /\ logged[q][1].err.code = 300
        /\ Len(ch[p]) = 0 /\ Len(ch[q]) = 0

\* A body that is not a JSON object: not JSON at all, or a JSON value of
\* another shape than the status document.
StructurallyInvalid(i) == Fixtures[i].kind # "object"

\* C2: whenever the body read by a cycle is structurally invalid, the cycle
\* sends nothing, logs the decode error and returns normally.
C2_InvalidPayloadEmitsNothing ==
    \A p \in Scrapers :
        (pc[p] \notin {"idle", "fetchHTTP", "Get", "ReadAll", "Unmarshal"}
         /\ data[p] # 0 /\ StructurallyInvalid(data[p])) =>
            /\ pc[p] = "returned"
            /\ ~crashed
            /\ Len(ch[p]) = 0
            /\ Len(logged[p]) = 1
            /\ logged[p][1].msg = "json.Unmarshal failed"

\* C4: a cycle that returned successfully has sent exactly one sample for
\* every descriptor of Describe that has no labels.
C4_EveryLabellessDescriptorSampled ==
    \A p \in Scrapers :
        (pc[p] = "returned" /\ exit[p] = "ok") =>
            \A d \in Describe :
                Len(d.labels) = 0 =>
                    Cardinality({i \in 1..Len(ch[p]) : ch[p][i].desc = d}) = 1

\* The process-global locations the next statement of p writes
\* (exporter.go:238) and reads (exporter.go:241: the client arms its timer
\* from Timeout).
SharedWrites(p) == IF pc[p] = "fetchHTTP" THEN {"http.DefaultClient.Timeout"} ELSE {}
SharedReads(p)  == IF pc[p] = "Get" THEN {"http.DefaultClient.Timeout"} ELSE {}

\* C5: no two cycles are ever about to access the same location with one of
\* them writing it: no cycle writes state another cycle reads or writes.
C5_NoSharedMutableState ==
    \A p, q \in Scrapers :
        p # q => SharedWrites(p) \cap (SharedWrites(q) \cup SharedReads(q)) = {}

\* The peers of the upstream zones `names` of a decoded snapshot.
RECURSIVE PeerCount(_, _)
PeerCount(zones, names) ==
    IF names = {} THEN 0
    ELSE LET z == CHOOSE x \in names : TRUE
         IN  Len(zones[z].Peers) + PeerCount(zones, names \ {z})

\* The number of samples of a complete cycle over a decoded snapshot.
CompleteCount(st) ==
    7 + 10 * Cardinality(DOMAIN st.ServerZones)
      + 10 * PeerCount(st.UpstreamZones, DOMAIN st.UpstreamZones)

\* C9: the process never goes down; after a failed cycle Collect can be
\* invoked again; and every cycle whose fetch succeeded and whose body decodes
\* returns with its complete sample set, each sample sent once, whatever the
\* other cycles did.
C9_FailureIsCycleLocal ==
    /\ ~crashed
    /\ \A p \in Scrapers :
           pc[p] = "returned" =>
               /\ (exit[p] # "ok" /\ cycles < MaxCycles) => ENABLED Collect(p)
               /\ (InSuccessRange(status[p]) /\ data[p] # 0
                   /\ ~Unmarshal(Fixtures[data[p]]).err) =>
                      /\ exit[p] = "ok"
                      /\ Len(ch[p]) = CompleteCount(Unmarshal(Fixtures[data[p]]).v)
                      /\ Cardinality(Range(ch[p])) = Len(ch[p])

\* A cycle over the two-zone document returned complete right after a failed
\* cycle, while the other goroutine's last cycle failed too.
C9_Witness ==
    \E p, q \in Scrapers :
        /\ p # q
        /\ pc[p] = "returned" /\ exit[p] = "ok" /\ data[p] = 6 /\ Len(ch[p]) = 47
        /\ pc[q] = "returned" /\ exit[q] \in {"fetch", "read", "decode"}
        /\ prev.exit \in {"fetch", "read", "decode"}
        /\ last.exit = "ok" /\ last.payload = 6

\* C10: the response body of a cycle is closed at most once at any time and
\* exactly once when Collect has returned (never when Get gave no response);
\* a body is handed to Collect only for a 2xx status and stays open and
\* non-nil while Collect reads and decodes; no goroutine panics.
C10_BodyClosedExactlyOnce ==
    \A p \in Scrapers :
        /\ closes[p] <= 1
        /\ pc[p] # "panicked"
        /\ pc[p] = "returned" => closes[p] = (IF status[p] = 0 THEN 0 ELSE 1)
        /\ body[p] # "nil" => InSuccessRange(status[p])
        /\ (AfterFetch(p) /\ pc[p] # "returned") => (body[p] # "nil" /\ closes[p] = 0)

\* One cycle returned after a non-2xx response and another after a failed
\* decode, each with its body closed once.
C10_Witness ==
    \E p, q \in Scrapers :
        /\ pc[p] = "returned" /\ exit[p] = "fetch" /\ status[p] = 300 /\ closes[p] = 1
        /\ pc[q] = "returned" /\ exit[q] = "decode" /\ closes[q] = 1

\* C3: a cycle that returned successfully has sent 10 server samples per
\* server zone of the document (5 field samples and 5 response samples for
\* each zone) and 10 upstream samples per peer summed over the upstream
\* zones; a zone whose peer list is empty has no sample.
C3_SampleCounts ==
    \A p \in Scrapers :
        (pc[p] = "returned" /\ exit[p] = "ok") =>
            LET sz  == RawMembers(Fixtures[data[p]], "server_zones")
                uz  == RawMembers(Fixtures[data[p]], "upstreams")
                srv == OfGroup(ch[p], "server")
                ups == OfGroup(ch[p], "upstream")
            IN  /\ Cardinality(srv) = 10 * Cardinality(DOMAIN sz)
                /\ \A host \in DOMAIN sz :
                       /\ Cardinality({i \in srv : ch[p][i].labelValues[1] = host
                                          /\ ch[p][i].desc.fqName[3] # "responses"}) = 5
                       /\ Cardinality({i \in srv : ch[p][i].labelValues[1] = host
                                          /\ ch[p][i].desc.fqName[3] = "responses"}) = 5
                /\ Cardinality(ups) = 10 * TotalPeers(uz, DOMAIN uz)
                /\ \A z \in DOMAIN uz :
                       Len(RawPeers(uz[z])) = 0 =>
                           \A i \in ups : ch[p][i].labelValues[1] # z

\* A cycle over two server zones, an upstream zone of two peers and one
\* without peers returned with 20 server and 20 upstream samples.
C3_Witness ==
    \E p \in Scrapers :
        /\ pc[p] = "returned" /\ exit[p] = "ok" /\ data[p] = 6
        /\ Cardinality(OfGroup(ch[p], "server")) = 20
        /\ Cardinality(OfGroup(ch[p], "upstream")) = 20
        /\ Len(RawPeers(RawMembers(Fixtures[6], "upstreams")["spare"])) = 0

\* The status document of the upstream: every known member has the JSON type
\* of its field; unknown members are free.
AllNumbers(o) ==
    o.kind = "object" /\ \A k \in DOMAIN o.members : o.members[k].kind = "number"

ConformsServer(z) ==
    /\ z.kind = "object"
    /\ \A k \in DOMAIN z.members :
           IF k = "responses" THEN AllNumbers(z.members[k])
           ELSE z.members[k].kind = "number"

ConformsPeer(q) ==
    /\ q.kind = "object"
    /\ \A k \in DOMAIN q.members :
           CASE k \in {"server", "state"} -> q.members[k].kind = "string"
             [] k = "responses"           -> AllNumbers(q.members[k])
             [] OTHER                     -> q.members[k].kind = "number"

ConformsUpstream(u) ==
    /\ u.kind = "object"
    /\ \A k \in DOMAIN u.members :
           IF k = "peers"
           THEN /\ u.members[k].kind = "array"
                /\ \A i \in 1..Len(u.members[k].items) :
                       ConformsPeer(u.members[k].items[i])
           ELSE u.members[k].kind = "number"

Conforms(j) ==
    /\ j.kind = "object"
    /\ \A k \in DOMAIN j.members :
           CASE k \in {"connections", "ssl", "requests"} -> AllNumbers(j.members[k])
             [] k = "server_zones" ->
                  /\ j.members[k].kind = "object"
                  /\ \A z \in DOMAIN j.members[k].members :
                         ConformsServer(j.members[k].members[z])
             [] k = "upstreams" ->
                  /\ j.members[k].kind = "object"
                  /\ \A z \in DOMAIN j.members[k].members :
                         ConformsUpstream(j.members[k].members[z])
             [] OTHER -> TRUE

Codes == <<"1xx", "2xx", "3xx", "4xx", "5xx">>

RawResponses(z) ==
    IF "responses" \in DOMAIN z.members THEN z.members["responses"]
    ELSE JObj([k \in {} |-> JNull])

\* The channel holds exactly one sample of metric group_name with these
\* label values, and it has this type, value and label schema.
Has(chan, group, name, labels, valueType, value, labelValues) ==
    LET hits == {i \in 1..Len(chan) :
                    /\ chan[i].desc.fqName = <<"nginx", group, name>>
                    /\ chan[i].labelValues = labelValues}
    IN  /\ Cardinality(hits) = 1
        /\ \A i \in hits :
               /\ chan[i].desc.labels = labels
               /\ chan[i].valueType = valueType
               /\ chan[i].value = value

\* A number of the document as a sample value: itself, or its float64.
Valued(x, exact) == IF exact THEN x ELSE Float64(x)

\* The ten samples of server zone `host`, sent as z.
ServerZoneEmitted(chan, host, z, exact) ==
    /\ Has(chan, "server", "processing", <<"server">>, "gauge",
           Valued(RawNum(z, "processing"), exact), <<host>>)
    /\ Has(chan, "server", "requests", <<"server">>, "counter",
           Valued(RawNum(z, "requests"), exact), <<host>>)
    /\ Has(chan, "server", "discarded", <<"server">>, "counter",
           Valued(RawNum(z, "discarded"), exact), <<host>>)
    /\ Has(chan, "server", "received", <<"server">>, "counter",
           Valued(RawNum(z, "received"), exact), <<host>>)
    /\ Has(chan, "server", "sent", <<"server">>, "counter",
           Valued(RawNum(z, "sent"), exact), <<host>>)
    /\ \A c \in 1..5 :
           Has(chan, "server", "responses", <<"server", "code">>, "counter",
               Valued(RawNum(RawResponses(z), Codes[c]), exact), <<host, Codes[c]>>)

\* p has read a conforming status document and returned.
ReturnedConforming(p) ==
    pc[p] = "returned" /\ data[p] # 0 /\ Conforms(Fixtures[data[p]])

\* C6 as stated: every server zone of a conforming document is decoded (also
\* without "discarded", which counts as 0) and its ten samples carry the
\* numbers of the document themselves.
C6_ServerZoneSamplesExact ==
    \A p \in Scrapers :
        ReturnedConforming(p) =>
            /\ exit[p] = "ok"
            /\ \A host \in DOMAIN RawMembers(Fixtures[data[p]], "server_zones") :
                   ServerZoneEmitted(ch[p], host,
                       RawMembers(Fixtures[data[p]], "server_zones")[host], TRUE)

\* C6, amended: the same, each sample valued with the float64 nearest to the
\* number of the document (the number itself up to 2^53); processing is a
\* gauge, the others counters, labelled server=<zone> and, for responses,
\* code="1xx".."5xx"; a zone without "discarded" decodes and its discarded
\* sample is 0.
C6_ServerZoneSamples ==
    \A p \in Scrapers :
        ReturnedConforming(p) =>
            /\ exit[p] = "ok"
            /\ \A host \in DOMAIN RawMembers(Fixtures[data[p]], "server_zones") :
                   ServerZoneEmitted(ch[p], host,
                       RawMembers(Fixtures[data[p]], "server_zones")[host], FALSE)

\* A cycle returned over a document whose zone site1 has no "discarded"; its
\* discarded sample is 0, beside a zone site2 that sent discarded = 2.
C6_Witness ==
    \E p \in Scrapers :
        /\ ReturnedConforming(p) /\ exit[p] = "ok" /\ data[p] = 6
        /\ "discarded" \notin
               DOMAIN RawMembers(Fixtures[6], "server_zones")["site1"].members
        /\ Has(ch[p], "server", "discarded", <<"server">>, "counter", Zero, <<"site1">>)
        /\ Has(ch[p], "server", "discarded", <<"server">>, "counter", N(0, 2), <<"site2">>)

\* C7: when the same body was read by the two most recent cycles, both
\* returned the same way with the same set of samples.
C7_Idempotent ==
    (prev.payload # 0 /\ prev.payload = last.payload) =>
        /\ prev.exit = last.exit
        /\ prev.samples = last.samples

\* The two goroutines returned one after the other over the same two-zone
\* document, having visited the zones in different orders.
C7_Witness ==
    /\ pc[1] = "returned" /\ pc[2] = "returned"
    /\ exit[1] = "ok" /\ exit[2] = "ok"
    /\ data[1] = 6 /\ data[2] = 6
    /\ ch[1] # ch[2]
    /\ prev.payload = 6 /\ last.payload = 6
    /\ Cardinality(last.samples) = 47

\* The addresses of the peers of an upstream zone as sent.
PeerAddresses(z) ==
    {RawPeers(z)[k].members["server"].str : k \in 1..Len(RawPeers(z))}

\* C8: every upstream response sample, as soon as it is sent, carries
\* (zone name, address of a peer of that zone, code) under the label schema
\* (server, upstream, code); a returned cycle holds one such sample for every
\* zone, peer and code.
C8_UpstreamLabelOrder ==
    \A p \in Scrapers :
        LET uz == RawMembers(Fixtures[IF data[p] = 0 THEN 1 ELSE data[p]], "upstreams")
        IN  /\ \A i \in OfGroup(ch[p], "upstream") :
                   ch[p][i].desc.fqName[3] = "responses" =>
                       /\ ch[p][i].desc.labels = <<"server", "upstream", "code">>
                       /\ Len(ch[p][i].labelValues) = 3
                       /\ ch[p][i].labelValues[1] \in DOMAIN uz
                       /\ ch[p][i].labelValues[2]
                              \in PeerAddresses(uz[ch[p][i].labelValues[1]])
                       /\ ch[p][i].labelValues[3] \in Range(Codes)
            /\ (pc[p] = "returned" /\ exit[p] = "ok") =>
                   \A z \in DOMAIN uz :
                       \A k \in 1..Len(RawPeers(uz[z])) :
                           \A c \in 1..5 :
                               Has(ch[p], "upstream", "responses",
                                   <<"server", "upstream", "code">>, "counter",
                                   Float64(RawNum(RawResponses(RawPeers(uz[z])[k]), Codes[c])),
                                   <<z, RawPeers(uz[z])[k].members["server"].str, Codes[c]>>)

\* A returned cycle holds response samples of two peers of one zone: the same
\* zone label, different peer labels.
C8_Witness ==
    \E p \in Scrapers :
        /\ pc[p] = "returned" /\ exit[p] = "ok"
        /\ \E i, k \in OfGroup(ch[p], "upstream") :
               /\ ch[p][i].desc.fqName[3] = "responses"
               /\ ch[p][k].desc.fqName[3] = "responses"
               /\ ch[p][i].labelValues[1] = "backend"
               /\ ch[p][k].labelValues[1] = "backend"
               /\ ch[p][i].labelValues[2] = "10.0.0.1:80"
               /\ ch[p][k].labelValues[2] = "10.0.0.2:80"

====
